---- MODULE Spec2Model ----
(***************************************************************************)
(* Model of the gait-phase estimation core of hip_controller:              *)
(*   control/high_level.py  MotionState, ExtremaTrigger,                    *)
(*                          HighLevelController, SteadyStateTracker         *)
(*   math_utils.py          hit_zero_crossing_from_upper / _from_lower      *)
(*   app.py                 WalkOnController                                *)
(*   definitions.py         StateChangeTimeThreshold, PositionLimitation,   *)
(*                          VALUE_NEAR_ZERO                                 *)
(*                                                                         *)
(* Numbers.  Angles and velocities are integers; a few integers outside    *)
(* the ordinary range are codes of special floats (NAN, INF, TINY), read   *)
(* by Float.  Timestamps are integers counting ticks of 0.3 s, so          *)
(* TMAX = 0.6 s is 2 ticks.  The derived quantities (vel_steady_state,     *)
(* z_t, pos_steady_state) are floats kept as pairs <<n, d>>: a reduced     *)
(* fraction n / d with d > 0, or <<1, 0>> for +inf, <<-1, 0>> for -inf and *)
(* <<0, 0>> for NaN.  A result above FLOAT_MAX in magnitude overflows to   *)
(* an infinity; rounding and underflow are not modelled.                   *)
(***************************************************************************)
EXTENDS Integers, Sequences, FiniteSets, TLC

(* ------------------------------ bounds -------------------------------- *)

\* Angles fed to update are -AngStep, 0, AngStep.
AngStep == 1

\* Velocities fed to update are -VelStep, 0, VelStep.
VelStep == 10

\* Timestamps fed to update are 0 .. MaxTime (ticks).
MaxTime == 4

Angles == {-AngStep, 0, AngStep}

Velocities == {-VelStep, 0, VelStep}

Timestamps == 0 .. MaxTime

(* ------------------------- program constants -------------------------- *)

\* StateChangeTimeThreshold.TMAX = 0.6 s, in ticks of 0.3 s.
TMAX == 2

\* StateChangeTimeThreshold.TMIN = 0.0 s, the default configuration.
TMIN == 0

\* PositionLimitation.UPPER / LOWER.
UPPER == 10

LOWER == -10

\* 1 / VALUE_NEAR_ZERO: VALUE_NEAR_ZERO = 1e-6 is the rational 1 / 1000000.
NEAR_ZERO_INV == 1000000

(* ----------------------------- rationals ------------------------------ *)

Abs(x) == IF x < 0 THEN -x ELSE x

RECURSIVE Gcd(_, _)
Gcd(a, b) == IF b = 0 THEN a ELSE Gcd(b, a % b)

\* The one value of e.  (The operators below take their arguments through
\* it, so that each argument is evaluated once.)
The(e) == CHOOSE x \in e : TRUE

\* The reduced pair of n / d, d # 0.
Rat(n, d) ==
    IF d = 1 THEN <<n, 1>>
    ELSE IF d > 0
         THEN The({<<n \div g, d \div g>> : g \in {Gcd(Abs(n), d)}})
         ELSE The({<<(-n) \div g, (-d) \div g>> : g \in {Gcd(Abs(n), -d)}})

RatInt(n) == <<n, 1>>

\* The largest finite float.  It stands for sys.float_info.max, scaled to
\* the number range of the model: HUGE / VALUE_NEAR_ZERO lies above it as
\* 1e303 / 1e-6 lies above the largest double.
FLOAT_MAX == 100000000

FloatNaN == <<0, 0>>

FloatInf(sign) == <<sign, 0>>

IsNaN(p) == p = FloatNaN

IsFinite(p) == p[2] # 0

Sign(p) == IF p[1] > 0 THEN 1 ELSE IF p[1] < 0 THEN -1 ELSE 0

\* The reduced fraction n / d rounded into the floats: an infinity when
\* its magnitude is above FLOAT_MAX.
Overflow(n, d) ==
    The({IF Abs(p[1]) <= FLOAT_MAX THEN p
         ELSE IF \/ Abs(p[1]) \div p[2] > FLOAT_MAX
                 \/ (Abs(p[1]) \div p[2] = FLOAT_MAX /\ Abs(p[1]) % p[2] > 0)
         THEN FloatInf(Sign(p)) ELSE p :
             p \in {Rat(n, d)}})

\* -0.0: the zero with the sign bit set.  It equals 0.0 in every comparison
\* of the program and differs from it in math.atan2 only.
NegZero == <<0, -1>>

\* The sign bit of a float other than NaN.
IsNegative(p) == p[1] < 0 \/ p[2] < 0

\* The zero of the given sign.
SignedZero(negative) == IF negative THEN NegZero ELSE RatInt(0)

RatNeg(p) ==
    IF p[1] = 0 /\ p[2] # 0 THEN SignedZero(~IsNegative(p))
    ELSE <<-p[1], p[2]>>

RatAbs(p) == IF p[2] < 0 THEN RatInt(0) ELSE <<Abs(p[1]), p[2]>>

\* A sum of two zeros is -0.0 only when both are; a sum that cancels is 0.0.
FloatAdd(p, q) ==
    IF p[2] # 0 /\ q[2] # 0
    THEN IF p[1] = 0
         THEN IF q[1] = 0 THEN SignedZero(p[2] < 0 /\ q[2] < 0) ELSE q
         ELSE IF q[1] = 0 THEN p
         ELSE Overflow(p[1] * q[2] + q[1] * p[2], p[2] * q[2])
    ELSE IF IsNaN(p) \/ IsNaN(q) THEN FloatNaN
    ELSE IF ~IsFinite(p) /\ ~IsFinite(q)
         THEN IF p = q THEN p ELSE FloatNaN
    ELSE IF ~IsFinite(p) THEN p
    ELSE q

RatAdd(p, q) == The({FloatAdd(x, y) : x \in {p}, y \in {q}})

RatSub(p, q) == The({FloatAdd(x, RatNeg(y)) : x \in {p}, y \in {q}})

\* A product that is zero carries the sign of its two factors.
FloatMul(p, q) ==
    IF p[2] # 0 /\ q[2] # 0
    THEN IF p[1] = 0 \/ q[1] = 0
         THEN SignedZero(IsNegative(p) # IsNegative(q))
         ELSE IF p[2] = 1 /\ q[2] = 1
              THEN IF Abs(p[1]) > FLOAT_MAX \div Abs(q[1])
                   THEN FloatInf(Sign(p) * Sign(q))
                   ELSE Overflow(p[1] * q[1], 1)
         ELSE The({Overflow((p[1] \div g) * (q[1] \div h),
                            (p[2] \div h) * (q[2] \div g)) :
                       g \in {Gcd(Abs(p[1]), q[2])},
                       h \in {Gcd(Abs(q[1]), p[2])}})
    ELSE IF IsNaN(p) \/ IsNaN(q) THEN FloatNaN
    ELSE IF Sign(p) * Sign(q) = 0 THEN FloatNaN
    ELSE FloatInf(Sign(p) * Sign(q))

RatMul(p, q) == The({FloatMul(x, y) : x \in {p}, y \in {q}})

\* p / q for a divisor q other than 0.0 (Python raises on 0.0; the only
\* divisors of the program are 2.0 and u_ang, which is never 0.0).
FloatDiv(p, q) ==
    IF p[2] # 0 /\ q[2] # 0
    THEN FloatMul(p, <<Sign(q) * q[2], Abs(q[1])>>)
    ELSE IF IsNaN(p) \/ IsNaN(q) THEN FloatNaN
    ELSE IF ~IsFinite(q)
         THEN IF IsFinite(p) THEN SignedZero(IsNegative(p) # IsNegative(q))
              ELSE FloatNaN
    ELSE FloatInf(Sign(p) * Sign(q))

RatDiv(p, q) == The({FloatDiv(x, y) : x \in {p}, y \in {q}})

\* p <= q; False when either side is NaN.
FloatLeq(p, q) ==
    IF p[2] # 0 /\ q[2] # 0 THEN p[1] * Abs(q[2]) <= q[1] * Abs(p[2])
    ELSE IF IsNaN(p) \/ IsNaN(q) THEN FALSE
    ELSE IF p = q THEN TRUE
    ELSE IF ~IsFinite(p) THEN p[1] < 0
    ELSE q[1] > 0

RatLeq(p, q) == The({FloatLeq(x, y) : x \in {p}, y \in {q}})

VALUE_NEAR_ZERO == Rat(1, NEAR_ZERO_INV)

(* --------------------------- input values ----------------------------- *)

\* The angle and velocity arguments of update are floats.  An ordinary
\* integer stands for itself; NAN, INF, TINY, BIG and NEGZERO are the codes
\* of float("nan"), float("inf"), 1e-3, sys.float_info.max and -0.0.  The
\* codes of INF, TINY and BIG are positive as the floats they stand for are.
NAN == 7000

INF == 7001

TINY == 7002

BIG == 7003

NEGZERO == 7004

\* A finite velocity so large that dividing it by VALUE_NEAR_ZERO overflows.
HUGE == 1000

\* The float an input value stands for.
Float(x) ==
    IF x < NAN THEN RatInt(x)
    ELSE IF x = NAN THEN FloatNaN
    ELSE IF x = INF THEN FloatInf(1)
    ELSE IF x = BIG THEN RatInt(FLOAT_MAX)
    ELSE IF x = NEGZERO THEN NegZero
    ELSE Rat(1, 1000)

\* Python's comparisons of a float with 0: each is False on NaN.
GtZero(x) == x # NAN /\ x # NEGZERO /\ x > 0

LtZero(x) == x # NAN /\ x < 0

GeZero(x) == x # NAN /\ x >= 0

LeZero(x) == x # NAN /\ (x <= 0 \/ x = NEGZERO)

(* ---------------------------- MotionState ----------------------------- *)

INITIAL == "INITIAL"

VELOCITY_MAX == "VELOCITY_MAX"

ANGLE_MAX == "ANGLE_MAX"

VELOCITY_MIN == "VELOCITY_MIN"

ANGLE_MIN == "ANGLE_MIN"

MotionState == {INITIAL, VELOCITY_MAX, ANGLE_MAX, VELOCITY_MIN, ANGLE_MIN}

(* --------------------------- timestamp_sec ---------------------------- *)

\* timestamp_sec holds a tick (>= 0), Python's None, or nothing at all:
\* __init__ only annotates the attribute and never assigns it.
None == -1

Unset == -2

(* ---------------------------- math_utils ------------------------------ *)

\* hit_zero_crossing_from_upper asking for a previous value above zero.
hit_zero_crossing_from_upper_strict(curr, prev) ==
    GtZero(prev) /\ LtZero(curr)

hit_zero_crossing_from_upper(curr, prev) == GeZero(prev) /\ LtZero(curr)

\* hit_zero_crossing_from_lower asking for a previous value below zero.
hit_zero_crossing_from_lower_strict(curr, prev) ==
    LtZero(prev) /\ GtZero(curr)

\* hit_zero_crossing_from_lower testing "not prev > 0" for "prev <= 0".
hit_zero_crossing_from_lower_negated(curr, prev) ==
    ~GtZero(prev) /\ GtZero(curr)

hit_zero_crossing_from_lower(curr, prev) == LeZero(prev) /\ GtZero(curr)

(* --------------------------- ExtremaTrigger --------------------------- *)

_angle_max_trigger(cv, pv, ca) ==
    hit_zero_crossing_from_upper(cv, pv) /\ GtZero(ca)

\* _angle_min_trigger without the sign test on the current angle.
_angle_min_trigger_no_sign(cv, pv, ca) ==
    hit_zero_crossing_from_lower(cv, pv)

_angle_min_trigger(cv, pv, ca) ==
    hit_zero_crossing_from_lower(cv, pv) /\ LtZero(ca)

\* _velocity_max_trigger testing the sign of the previous angle's
\* successor only, not that of the current velocity.
_velocity_max_trigger_no_sign(ca, pa, cv) ==
    hit_zero_crossing_from_lower(ca, pa)

_velocity_max_trigger(ca, pa, cv) ==
    hit_zero_crossing_from_lower(ca, pa) /\ GtZero(cv)

_velocity_min_trigger(ca, pa, cv) ==
    hit_zero_crossing_from_upper(ca, pa) /\ LtZero(cv)

\* The four flags update_triggers assigns.
update_triggers(ca, pa, cv, pv) ==
    [vel_max |-> _velocity_max_trigger(ca, pa, cv),
     ang_max |-> _angle_max_trigger(cv, pv, ca),
     vel_min |-> _velocity_min_trigger(ca, pa, cv),
     ang_min |-> _angle_min_trigger(cv, pv, ca)]

\* _handle_initial_state testing the flags in the reverse order.
_handle_initial_state_reversed(trg) ==
    IF trg.ang_min THEN ANGLE_MIN
    ELSE IF trg.vel_min THEN VELOCITY_MIN
    ELSE IF trg.ang_max THEN ANGLE_MAX
    ELSE IF trg.vel_max THEN VELOCITY_MAX
    ELSE INITIAL

_handle_initial_state(trg) ==
    IF trg.vel_max THEN VELOCITY_MAX
    ELSE IF trg.ang_max THEN ANGLE_MAX
    ELSE IF trg.vel_min THEN VELOCITY_MIN
    ELSE IF trg.ang_min THEN ANGLE_MIN
    ELSE INITIAL

\* detect_state without the test of the current state: the entry logic of
\* INITIAL in every state.
detect_state_as_initial(trg, current_state) == _handle_initial_state(trg)

\* detect_state advancing on any trigger that fires, not only on the
\* trigger of the successor state.
detect_state_any_trigger(trg, current_state) ==
    IF current_state = INITIAL THEN _handle_initial_state(trg)
    ELSE IF trg.vel_max THEN VELOCITY_MAX
    ELSE IF trg.ang_max THEN ANGLE_MAX
    ELSE IF trg.vel_min THEN VELOCITY_MIN
    ELSE IF trg.ang_min THEN ANGLE_MIN
    ELSE current_state

\* detect_state advancing on the trigger of the current state instead of
\* the trigger of its successor.
detect_state_own_trigger(trg, current_state) ==
    IF current_state = INITIAL THEN _handle_initial_state(trg)
    ELSE IF current_state = ANGLE_MAX /\ trg.ang_max THEN VELOCITY_MIN
    ELSE IF current_state = ANGLE_MIN /\ trg.ang_min THEN VELOCITY_MAX
    ELSE IF current_state = VELOCITY_MAX /\ trg.vel_max THEN ANGLE_MAX
    ELSE IF current_state = VELOCITY_MIN /\ trg.vel_min THEN ANGLE_MIN
    ELSE current_state

detect_state(trg, current_state) ==
    IF current_state = INITIAL THEN _handle_initial_state(trg)
    ELSE IF current_state = ANGLE_MAX /\ trg.vel_min THEN VELOCITY_MIN
    ELSE IF current_state = ANGLE_MIN /\ trg.vel_max THEN VELOCITY_MAX
    ELSE IF current_state = VELOCITY_MAX /\ trg.ang_max THEN ANGLE_MAX
    ELSE IF current_state = VELOCITY_MIN /\ trg.ang_min THEN ANGLE_MIN
    ELSE current_state

(* ------------------------- SteadyStateTracker ------------------------- *)

\* val_curr - (val_max + val_min) / 2.0
calculate_steady(val_max, val_min, val_curr) ==
    IF val_max < NAN /\ val_min < NAN /\ val_curr < NAN
    THEN \* ordinary numbers: no special value and no overflow
         Rat(2 * val_curr - (val_max + val_min), 2)
    ELSE RatSub(Float(val_curr),
                RatDiv(RatAdd(Float(val_max), Float(val_min)), RatInt(2)))

\* abs(velocity_max - velocity_min) / abs(angle_max - angle_min), the
\* divisor replaced by VALUE_NEAR_ZERO when it is 0.
_calculate_z_t(vmax, vmin, amax, amin) ==
    LET u_vel == RatAbs(RatSub(Float(vmax), Float(vmin)))
        d     == RatAbs(RatSub(Float(amax), Float(amin)))
        u_ang == IF d = RatInt(0) THEN VALUE_NEAR_ZERO ELSE d
    IN  RatDiv(u_vel, u_ang)

\* self.z_t * self._calculate_ang_ss(curr_angle)
_calculate_pos_ss(z, amax, amin, ca) ==
    RatMul(z, calculate_steady(amax, amin, ca))

\* The limitation with only its upper end tested.
InPositionLimitation_upper_only(p) == RatLeq(p, RatInt(UPPER))

\* PositionLimitation.LOWER <= pos_ss <= PositionLimitation.UPPER
InPositionLimitation(p) ==
    RatLeq(RatInt(LOWER), p) /\ RatLeq(p, RatInt(UPPER))

(* -------------------------- WalkOnController -------------------------- *)

\* A WalkOnController is kept as the record of its attributes.  dt is a
\* float in ticks; freq is a float in steps per tick.

\* The value of an attribute that __init__ declares without assigning it.
Unassigned == 9000

\* freq = 1.0 (Hz) of the entry point: 0.3 steps per tick of 0.3 s.
MainFreq == Rat(3, 10)

\* WalkOnController.__init__(freq)
WalkOnController(freq) ==
    [freq          |-> freq,
     prev_angle    |-> 0,
     prev_velocity |-> 0,
     curr_angle    |-> 0,
     curr_velocity |-> 0,
     angle_max     |-> Unassigned,
     angle_min     |-> Unassigned,
     velocity_max  |-> Unassigned,
     velocity_min  |-> Unassigned,
     state         |-> INITIAL,
     dt            |-> RatInt(0)]

\* p < q; False when either side is NaN.
RatLess(p, q) == RatLeq(p, q) /\ ~RatLeq(q, p)

\* The thresholds app.py imports from definitions: TMAX = 0.6 s and
\* TMIN = 0.0 s, in ticks.
MAX_STATE_CHANGE_TIME_THRESHOLD == TMAX

MIN_STATE_CHANGE_TIME_THRESHOLD == TMIN

\* The trigger functions app.py imports from high_level: each is the zero
\* crossing of one signal, without a test of the other signal's sign.
velocity_max_trigger(curr_angle_, prev_angle_) ==
    hit_zero_crossing_from_lower(curr_angle_, prev_angle_)

velocity_min_trigger(curr_angle_, prev_angle_) ==
    hit_zero_crossing_from_upper(curr_angle_, prev_angle_)

angle_max_trigger(curr_velocity_, prev_velocity_) ==
    hit_zero_crossing_from_upper(curr_velocity_, prev_velocity_)

angle_min_trigger(curr_velocity_, prev_velocity_) ==
    hit_zero_crossing_from_lower(curr_velocity_, prev_velocity_)

\* The setters, each returning the controller w as it leaves it.

\* set_state_angle_max storing the current velocity.
set_state_angle_max_stores_velocity(w) ==
    [w EXCEPT !.state = ANGLE_MAX, !.angle_max = w.curr_velocity]

set_state_angle_max(w) ==
    [w EXCEPT !.state = ANGLE_MAX, !.angle_max = w.curr_angle]

set_state_angle_min(w) ==
    [w EXCEPT !.state = ANGLE_MIN, !.angle_min = w.curr_angle]

set_state_velocity_max(w) ==
    [w EXCEPT !.state = VELOCITY_MAX, !.velocity_max = w.curr_velocity]

set_state_velocity_min(w) ==
    [w EXCEPT !.state = VELOCITY_MIN, !.velocity_min = w.curr_velocity]

set_state_initial(w) ==
    [w EXCEPT !.state = INITIAL, !.dt = RatInt(0)]

\* WalkOnController.handle_initial_state
handle_initial_state(w, vel_max, vel_min, ang_min, ang_max) ==
    IF vel_max /\ GtZero(w.curr_velocity) THEN set_state_angle_max(w)
    ELSE IF vel_min /\ LtZero(w.curr_velocity) THEN set_state_angle_min(w)
    ELSE IF ang_min /\ LtZero(w.curr_angle) THEN set_state_velocity_max(w)
    ELSE IF ang_max /\ GtZero(w.curr_angle) THEN set_state_velocity_min(w)
    ELSE w

\* WalkOnController.update_state
update_state(w) ==
    LET ang_max == angle_max_trigger(w.curr_velocity, w.prev_velocity)
        ang_min == angle_min_trigger(w.curr_velocity, w.prev_velocity)
        vel_max == velocity_max_trigger(w.curr_angle, w.prev_angle)
        vel_min == velocity_min_trigger(w.curr_angle, w.prev_angle)
    IN  IF RatLeq(RatInt(MAX_STATE_CHANGE_TIME_THRESHOLD), w.dt)
        THEN set_state_initial(w)
        ELSE IF RatLess(w.dt, RatInt(MIN_STATE_CHANGE_TIME_THRESHOLD))
        THEN w
        ELSE IF w.state = INITIAL
        THEN handle_initial_state(w, vel_max, vel_min, ang_min, ang_max)
        ELSE IF w.state = ANGLE_MAX /\ ang_max /\ GtZero(w.curr_angle)
        THEN set_state_velocity_min(w)
        ELSE IF w.state = ANGLE_MIN /\ ang_min /\ LtZero(w.curr_angle)
        THEN set_state_velocity_max(w)
        ELSE IF w.state = VELOCITY_MAX /\ vel_max /\ GtZero(w.curr_velocity)
        THEN set_state_angle_max(w)
        ELSE IF w.state = VELOCITY_MIN /\ vel_min /\ LtZero(w.curr_velocity)
        THEN set_state_angle_min(w)
        ELSE w

\* step adding the period to dt after update_state has run.
step_increments_after_gate(w, theta, theta_dot, stopped) ==
    LET w1 == [w EXCEPT !.curr_angle = theta,
                        !.curr_velocity = theta_dot]
        w2 == update_state(w1)
        w3 == [w2 EXCEPT !.dt = RatAdd(w2.dt, RatDiv(RatInt(1), w.freq))]
    IN  IF stopped THEN w3
        ELSE [w3 EXCEPT !.prev_angle = w3.curr_angle,
                        !.prev_velocity = w3.curr_velocity]

\* WalkOnController.step(theta, theta_dot).  stopped says that the
\* low-level stop condition was reached, in which case step returns
\* before it shifts the current sample into the previous one.
step(w, theta, theta_dot, stopped) ==
    LET w1 == [w EXCEPT !.dt = RatAdd(w.dt, RatDiv(RatInt(1), w.freq)),
                        !.curr_angle = theta,
                        !.curr_velocity = theta_dot]
        w2 == update_state(w1)
    IN  IF stopped THEN w2
        ELSE [w2 EXCEPT !.prev_angle = w2.curr_angle,
                        !.prev_velocity = w2.curr_velocity]

\* No function has returned a value yet.
NoReturn == [none |-> TRUE]

\* No sample has been fed yet: no trigger seen (kind INITIAL), no sample
\* late, no state entered.
NoStream == [kind |-> INITIAL, time |-> 0, late |-> FALSE, entered |-> <<>>]

(* ------------------------------- state -------------------------------- *)

VARIABLES
    state,             \* HighLevelController.state
    prev_angle,        \* HighLevelController.prev_angle
    prev_velocity,     \* HighLevelController.prev_velocity
    curr_angle,        \* HighLevelController.curr_angle
    curr_velocity,     \* HighLevelController.curr_velocity
    extrema_triggers,  \* HighLevelController.extrema_triggers (four flags)
    timestamp_sec,     \* HighLevelController.timestamp_sec: Unset, None or a tick
    angle_max,         \* SteadyStateTracker.angle_max
    angle_min,         \* SteadyStateTracker.angle_min
    velocity_max,      \* SteadyStateTracker.velocity_max
    velocity_min,      \* SteadyStateTracker.velocity_min
    vel_steady_state,  \* SteadyStateTracker.vel_steady_state
    z_t,               \* SteadyStateTracker.z_t
    pos_steady_state,  \* SteadyStateTracker.pos_steady_state
    z_valid,           \* some update so far has assigned z_t a non-zero ratio
    tmin,              \* the configured StateChangeTimeThreshold.TMIN
    now,               \* the timestamp argument of the latest update call
    pre_state,         \* self.state on entry to the latest call
    gated,             \* what _check_timeout returned in the latest update call
    op,                \* the latest call: "__init__", "update", "detect_state",
                       \* "update_triggers", ... (the name of the method)
    walk_on,           \* the WalkOnController object of app.py
    ret,               \* what the latest call of a function returned, for
                       \* the functions that return a value
    stream             \* what the sample stream fed so far looked like (kept
                       \* by the specification that feeds an ordered stream)

vars == <<state, prev_angle, prev_velocity, curr_angle, curr_velocity,
          extrema_triggers, timestamp_sec, angle_max, angle_min,
          velocity_max, velocity_min, vel_steady_state, z_t,
          pos_steady_state, z_valid, tmin, now, pre_state, gated, op,
          walk_on, ret, stream>>

extrema == <<velocity_max, angle_max, velocity_min, angle_min>>

\* The configurations of StateChangeTimeThreshold.TMIN: every tick count
\* below TMAX (the default is TMIN).
TMinChoices == TMIN .. (TMAX - 1)

\* HighLevelController.__init__, ExtremaTrigger.__init__ and
\* SteadyStateTracker.__init__, for the configuration TMIN = tm.
Construct(tm) ==
    /\ state = INITIAL
    /\ prev_angle = 0
    /\ prev_velocity = 0
    /\ curr_angle = 0
    /\ curr_velocity = 0
    /\ extrema_triggers = [vel_max |-> FALSE, ang_max |-> FALSE,
                           vel_min |-> FALSE, ang_min |-> FALSE]
    /\ timestamp_sec = Unset
    /\ angle_max = 0
    /\ angle_min = 0
    /\ velocity_max = 0
    /\ velocity_min = 0
    /\ vel_steady_state = RatInt(0)
    /\ z_t = RatInt(0)
    /\ pos_steady_state = RatInt(0)
    /\ z_valid = FALSE
    /\ tmin = tm
    /\ now = 0
    /\ pre_state = INITIAL
    /\ gated = FALSE
    /\ op = "__init__"
    /\ walk_on = WalkOnController(MainFreq)
    /\ ret = NoReturn
    /\ stream = NoStream

Init == \E tm \in TMinChoices : Construct(tm)

(* ----------------------------- _set_state ----------------------------- *)

\* The fields _set_state and _check_timeout work on, as a record.
Controller ==
    [state |-> state, timestamp_sec |-> timestamp_sec,
     angle_max |-> angle_max, angle_min |-> angle_min,
     velocity_max |-> velocity_max, velocity_min |-> velocity_min]

\* _set_state that does not assign timestamp_sec.
_set_state_keeping_timer(c, st, ts, a, v) ==
    [state        |-> st,
     timestamp_sec |-> c.timestamp_sec,
     angle_max    |-> IF st = ANGLE_MAX THEN a ELSE c.angle_max,
     angle_min    |-> IF st = ANGLE_MIN THEN a ELSE c.angle_min,
     velocity_max |-> IF st = VELOCITY_MAX THEN v ELSE c.velocity_max,
     velocity_min |-> IF st = VELOCITY_MIN THEN v ELSE c.velocity_min]

\* _set_state storing the velocity in the angle slots and the angle in the
\* velocity slots.
_set_state_swapped(c, st, ts, a, v) ==
    [state        |-> st,
     timestamp_sec |-> ts,
     angle_max    |-> IF st = ANGLE_MAX THEN v ELSE c.angle_max,
     angle_min    |-> IF st = ANGLE_MIN THEN v ELSE c.angle_min,
     velocity_max |-> IF st = VELOCITY_MAX THEN a ELSE c.velocity_max,
     velocity_min |-> IF st = VELOCITY_MIN THEN a ELSE c.velocity_min]

\* _set_state clearing the four slots on entry into INITIAL.
_set_state_clearing(c, st, ts, a, v) ==
    [state        |-> st,
     timestamp_sec |-> ts,
     angle_max    |-> IF st = ANGLE_MAX THEN a
                      ELSE IF st = INITIAL THEN 0 ELSE c.angle_max,
     angle_min    |-> IF st = ANGLE_MIN THEN a
                      ELSE IF st = INITIAL THEN 0 ELSE c.angle_min,
     velocity_max |-> IF st = VELOCITY_MAX THEN v
                      ELSE IF st = INITIAL THEN 0 ELSE c.velocity_max,
     velocity_min |-> IF st = VELOCITY_MIN THEN v
                      ELSE IF st = INITIAL THEN 0 ELSE c.velocity_min]

\* _set_state(state = st, timestamp = ts) on the fields c, the current
\* sample being (a, v): the fields afterwards.
_set_state(c, st, ts, a, v) ==
    [state        |-> st,
     timestamp_sec |-> ts,
     angle_max    |-> IF st = ANGLE_MAX THEN a ELSE c.angle_max,
     angle_min    |-> IF st = ANGLE_MIN THEN a ELSE c.angle_min,
     velocity_max |-> IF st = VELOCITY_MAX THEN v ELSE c.velocity_max,
     velocity_min |-> IF st = VELOCITY_MIN THEN v ELSE c.velocity_min]

(* --------------------------- _check_timeout --------------------------- *)

\* _check_timeout with an exclusive timeout threshold (dt > TMAX).
_check_timeout_exclusive(st, ts, timestamp) ==
    IF st = INITIAL THEN "pass"
    ELSE IF ts = None THEN "pass"
    ELSE IF timestamp - ts < tmin THEN "debounce"
    ELSE IF timestamp - ts > TMAX THEN "timeout"
    ELSE "pass"

\* _check_timeout without the minimum-dwell test.
_check_timeout_no_dwell(st, ts, timestamp) ==
    IF st = INITIAL THEN "pass"
    ELSE IF ts = None THEN "pass"
    ELSE IF timestamp - ts >= TMAX THEN "timeout"
    ELSE "pass"

\* What _check_timeout(timestamp) decides in state st with timer ts:
\* "pass" (returns False), "debounce" (returns True, nothing changed) or
\* "timeout" (returns True after _set_state(INITIAL, None)).
_check_timeout(st, ts, timestamp) ==
    IF st = INITIAL THEN "pass"
    ELSE IF ts = None THEN "pass"
    ELSE IF timestamp - ts < tmin THEN "debounce"
    ELSE IF timestamp - ts >= TMAX THEN "timeout"
    ELSE "pass"

(* ------------------------ calculate_gait_phase ------------------------ *)

\* A gait phase is kept as the direction it points in: the pair <<y, x>>
\* of a point with |y| + |x| = 1, so that two phases are equal iff they
\* are the same angle.  0.0 is the direction of the positive x axis, pi
\* that of the negative x axis.
PhaseZero == <<RatInt(0), RatInt(1)>>

PhasePi == <<RatInt(0), RatInt(-1)>>

PhaseNaN == <<FloatNaN, FloatNaN>>

\* -pi and -0.0: the y of the direction keeps the sign of its zero, which
\* is what tells -pi from pi and -0.0 from 0.0.
PhaseMinusPi == <<NegZero, RatInt(-1)>>

PhaseNegZero == <<NegZero, RatInt(1)>>

\* math.atan2(y, x).  Next to an infinite argument a finite one counts as
\* the zero of its sign.  On a y of zero the result is the zero of y's sign
\* for an x of 0.0 or above, and pi with y's sign for an x of -0.0 or below.
Atan2(y, x) ==
    IF IsNaN(y) \/ IsNaN(x) THEN PhaseNaN
    ELSE LET fin == IsFinite(y) /\ IsFinite(x)
             yy  == IF fin THEN y
                    ELSE IF IsFinite(y) THEN SignedZero(IsNegative(y))
                    ELSE RatInt(Sign(y))
             xx  == IF fin THEN x
                    ELSE IF IsFinite(x) THEN SignedZero(IsNegative(x))
                    ELSE RatInt(Sign(x))
             n   == RatAdd(RatAbs(yy), RatAbs(xx))
         IN  IF n = RatInt(0)
             THEN <<yy, RatInt(IF IsNegative(xx) THEN -1 ELSE 1)>>
             ELSE <<RatDiv(yy, n),
                    IF xx[1] = 0 THEN RatInt(0) ELSE RatDiv(xx, n)>>

\* -self.pos_steady_state
NegPos(p) == RatNeg(p)

\* calculate_gait_phase without the minus sign.
calculate_gait_phase_no_minus ==
    IF z_t = RatInt(0) THEN PhaseZero
    ELSE Atan2(vel_steady_state, pos_steady_state)

\* SteadyStateTracker.calculate_gait_phase() on the current fields.
calculate_gait_phase ==
    IF z_t = RatInt(0) THEN PhaseZero
    ELSE Atan2(vel_steady_state, NegPos(pos_steady_state))

(* ------------------------ update_steady_state ------------------------- *)

\* _calculate_pos_ss called before self.z_t is assigned.
ZForPosition_stale(z_new, z_old) == z_old

\* The z_t that _calculate_pos_ss multiplies with: the one just assigned.
ZForPosition(z_new, z_old) == z_new

\* update_steady_state run on the extrema memory as it was before this
\* update's transition.
update_steady_state_before_transition(c, a, v) ==
    \E ratio \in {_calculate_z_t(velocity_max, velocity_min,
                                  angle_max, angle_min)} :
    \E z \in {IF IsNaN(ratio) THEN z_t ELSE ratio} :
    \E pos_ss \in {_calculate_pos_ss(z, angle_max, angle_min, a)} :
        /\ vel_steady_state' = calculate_steady(velocity_max, velocity_min, v)
        /\ z_t' = z
        /\ pos_steady_state' = IF InPositionLimitation(pos_ss) THEN pos_ss
                               ELSE pos_steady_state

\* update_steady_state(curr_angle = a, curr_velocity = v) on the fields c.
\* The computed ratio is assigned unless math.isnan says it is NaN; an
\* infinite ratio is assigned.
update_steady_state(c, a, v) ==
    \E ratio \in {_calculate_z_t(c.velocity_max, c.velocity_min,
                                  c.angle_max, c.angle_min)} :
    \E z \in {IF IsNaN(ratio) THEN z_t ELSE ratio} :
    \E pos_ss \in {_calculate_pos_ss(ZForPosition(z, z_t),
                                      c.angle_max, c.angle_min, a)} :
        /\ vel_steady_state' = calculate_steady(c.velocity_max, c.velocity_min, v)
        /\ z_t' = z
        /\ pos_steady_state' = IF InPositionLimitation(pos_ss) THEN pos_ss
                               ELSE pos_steady_state

(* ------------------------------- update ------------------------------- *)

\* The trigger logic skipped on a debounced sample only.
RunsTriggerLogic_after_timeout(gate) == gate # "debounce"

\* update's branch on _check_timeout: the trigger logic runs iff it
\* returned False.
RunsTriggerLogic(gate) == gate = "pass"

\* HighLevelController.update(curr_angle = a, curr_vel = v, timestamp = t).
update(a, v, t) ==
    \E gate \in {_check_timeout(state, timestamp_sec, t)} :
    \E c0 \in {IF gate = "timeout"
                THEN _set_state(Controller, INITIAL, None, a, v)
                ELSE Controller} :
    \E run \in {RunsTriggerLogic(gate)} :
    \E trg \in {IF run THEN update_triggers(a, curr_angle, v, curr_velocity)
                 ELSE extrema_triggers} :
    \E new_state \in {IF run THEN detect_state(trg, c0.state) ELSE c0.state} :
    \E c1 \in {IF c0.state # new_state
                THEN _set_state(c0, new_state, t, a, v)
                ELSE c0} :
        /\ prev_angle' = curr_angle
        /\ prev_velocity' = curr_velocity
        /\ curr_angle' = a
        /\ curr_velocity' = v
        /\ extrema_triggers' = trg
        /\ state' = c1.state
        /\ timestamp_sec' = c1.timestamp_sec
        /\ angle_max' = c1.angle_max
        /\ angle_min' = c1.angle_min
        /\ velocity_max' = c1.velocity_max
        /\ velocity_min' = c1.velocity_min
        /\ update_steady_state(c1, a, v)
        /\ z_valid' = (z_valid \/ z_t' # RatInt(0))
        /\ tmin' = tmin
        /\ now' = t
        /\ pre_state' = state
        /\ gated' = (gate # "pass")
        /\ op' = "update"
        /\ UNCHANGED <<walk_on, ret>>

\* One sample of a monotonic sampling clock.
Update ==
    \E a \in Angles, v \in Velocities, t \in Timestamps :
        t >= now /\ update(a, v, t) /\ UNCHANGED stream

Next == Update

Spec == Init /\ [][Next]_vars

(* ------------------ update on the finite floats at large -------------- *)

\* Finite angles and velocities of every magnitude: the ordinary ones, a
\* very small one and, for the velocity, a very large one.
FiniteAngles == Angles \cup {TINY}

FiniteVelocities == Velocities \cup {TINY, HUGE}

\* The timestamps of the first samples of a clock that ticks once per
\* sample, up to the first tick after TMAX.
EarlyTimestamps == 1 .. (TMAX + 1)

UpdateFinite ==
    \E a \in FiniteAngles, v \in FiniteVelocities, t \in EarlyTimestamps :
        t = now + 1 /\ update(a, v, t) /\ UNCHANGED stream

\* A controller with the default thresholds fed finite samples.
SpecFinite == Construct(TMIN) /\ [][UpdateFinite]_vars

(* -------------------- update on floats of every kind ------------------ *)

\* The ordinary angles and velocities, NaN and +inf.
FloatAngles == Angles \cup {NAN, INF}

FloatVelocities == Velocities \cup {NAN, INF}

UpdateFloat ==
    \E a \in FloatAngles, v \in FloatVelocities, t \in EarlyTimestamps :
        t = now + 1 /\ update(a, v, t) /\ UNCHANGED stream

\* A controller with the default thresholds fed samples that may be NaN
\* or infinite.
SpecFloat == Construct(TMIN) /\ [][UpdateFloat]_vars

(* ------------------ update on a clock that may step back -------------- *)

\* Any timestamp below TMAX, smaller than an earlier one or not.
UpdateAnyClock ==
    \E a \in Angles, v \in Velocities, t \in 0 .. (TMAX - 1) :
        update(a, v, t) /\ UNCHANGED stream

\* A controller with the default thresholds whose caller does not keep the
\* timestamps in order.
SpecAnyClock == Construct(TMIN) /\ [][UpdateAnyClock]_vars

(* --------------------- construction, any thresholds ------------------- *)

\* Every TMIN from the default up to TMAX itself: TMAX <= TMIN included.
InitAnyThresholds == \E tm \in TMIN .. TMAX : Construct(tm)

UpdateEarly ==
    \E a \in Angles, v \in Velocities, t \in EarlyTimestamps :
        t = now + 1 /\ update(a, v, t) /\ UNCHANGED stream

\* A controller constructed under any thresholds and fed its first samples.
SpecAnyThresholds == InitAnyThresholds /\ [][UpdateEarly]_vars

(* ----------------------- detect_state on its own ---------------------- *)

\* Every value of the four public flags of an ExtremaTrigger.
TriggerFlags ==
    [vel_max : BOOLEAN, ang_max : BOOLEAN, vel_min : BOOLEAN, ang_min : BOOLEAN]

\* A controller as constructed, its state and the flags of its
\* ExtremaTrigger then set to any values.
InitDetect ==
    \E f \in TriggerFlags, s \in MotionState :
        /\ state = s
        /\ prev_angle = 0
        /\ prev_velocity = 0
        /\ curr_angle = 0
        /\ curr_velocity = 0
        /\ extrema_triggers = f
        /\ timestamp_sec = Unset
        /\ angle_max = 0
        /\ angle_min = 0
        /\ velocity_max = 0
        /\ velocity_min = 0
        /\ vel_steady_state = RatInt(0)
        /\ z_t = RatInt(0)
        /\ pos_steady_state = RatInt(0)
        /\ z_valid = FALSE
        /\ tmin = TMIN
        /\ now = 0
        /\ pre_state = s
        /\ gated = FALSE
        /\ op = "__init__"
        /\ walk_on = WalkOnController(MainFreq)
        /\ ret = NoReturn
        /\ stream = NoStream

\* state = extrema_triggers.detect_state(state)
Detect ==
    /\ state' = detect_state(extrema_triggers, state)
    /\ pre_state' = state
    /\ op' = "detect_state"
    /\ UNCHANGED <<prev_angle, prev_velocity, curr_angle, curr_velocity,
                   extrema_triggers, timestamp_sec, angle_max, angle_min,
                   velocity_max, velocity_min, vel_steady_state, z_t,
                   pos_steady_state, z_valid, tmin, now, gated, walk_on,
                   ret, stream>>

SpecDetect == InitDetect /\ [][Detect]_vars

(* ---------------------- update_triggers on its own -------------------- *)

\* A controller as constructed, its previous and current sample then set
\* to any values.
InitTriggers ==
    \E pa \in FloatAngles, ca \in FloatAngles,
       pv \in FloatVelocities, cv \in FloatVelocities :
        /\ state = INITIAL
        /\ prev_angle = pa
        /\ prev_velocity = pv
        /\ curr_angle = ca
        /\ curr_velocity = cv
        /\ extrema_triggers = [vel_max |-> FALSE, ang_max |-> FALSE,
                               vel_min |-> FALSE, ang_min |-> FALSE]
        /\ timestamp_sec = Unset
        /\ angle_max = 0
        /\ angle_min = 0
        /\ velocity_max = 0
        /\ velocity_min = 0
        /\ vel_steady_state = RatInt(0)
        /\ z_t = RatInt(0)
        /\ pos_steady_state = RatInt(0)
        /\ z_valid = FALSE
        /\ tmin = TMIN
        /\ now = 0
        /\ pre_state = INITIAL
        /\ gated = FALSE
        /\ op = "__init__"
        /\ walk_on = WalkOnController(MainFreq)
        /\ ret = NoReturn
        /\ stream = NoStream

\* extrema_triggers.update_triggers(curr_angle, prev_angle, curr_velocity,
\* prev_velocity)
UpdateTriggers ==
    /\ extrema_triggers' = update_triggers(curr_angle, prev_angle,
                                           curr_velocity, prev_velocity)
    /\ op' = "update_triggers"
    /\ UNCHANGED <<state, prev_angle, prev_velocity, curr_angle,
                   curr_velocity, timestamp_sec, angle_max, angle_min,
                   velocity_max, velocity_min, vel_steady_state, z_t,
                   pos_steady_state, z_valid, tmin, now, pre_state, gated,
                   walk_on, ret, stream>>

SpecTriggers == InitTriggers /\ [][UpdateTriggers]_vars

(* -------------- update_triggers followed by detect_state -------------- *)

\* What update does with a sample pair when the timing gate lets it pass:
\* update_triggers on the pair, then detect_state on the flags.
DetectSample ==
    \E trg \in {update_triggers(curr_angle, prev_angle,
                                curr_velocity, prev_velocity)} :
        /\ extrema_triggers' = trg
        /\ state' = detect_state(trg, state)
        /\ pre_state' = state
        /\ op' = "detect_state"
        /\ UNCHANGED <<prev_angle, prev_velocity, curr_angle, curr_velocity,
                       timestamp_sec, angle_max, angle_min, velocity_max,
                       velocity_min, vel_steady_state, z_t, pos_steady_state,
                       z_valid, tmin, now, gated, walk_on, ret, stream>>

\* A controller in INITIAL holding any sample pair, the pair then run
\* through update_triggers and detect_state.
SpecDetectSample == InitTriggers /\ [][DetectSample]_vars

(* ------------------- the zero-crossing detectors alone ---------------- *)

\* hit_zero_crossing_from_upper and hit_zero_crossing_from_lower, both
\* called on the (previous, current) pair of the angle or of the velocity.
HitZeroCrossing ==
    \E pair \in {<<prev_angle, curr_angle>>, <<prev_velocity, curr_velocity>>} :
        /\ ret' = [prev |-> pair[1],
                   curr |-> pair[2],
                   from_upper |-> hit_zero_crossing_from_upper(pair[2], pair[1]),
                   from_lower |-> hit_zero_crossing_from_lower(pair[2], pair[1])]
        /\ op' = "hit_zero_crossing"
        /\ UNCHANGED <<state, prev_angle, prev_velocity, curr_angle,
                       curr_velocity, extrema_triggers, timestamp_sec,
                       angle_max, angle_min, velocity_max, velocity_min,
                       vel_steady_state, z_t, pos_steady_state, z_valid,
                       tmin, now, pre_state, gated, walk_on, stream>>

SpecCrossing == InitTriggers /\ [][HitZeroCrossing]_vars

(* ------------------------ calculate_steady alone ---------------------- *)

\* Finite arguments of every magnitude: the ordinary velocities, a large
\* one and the largest float.
SteadyInputs == Velocities \cup {HUGE, BIG}

\* SteadyStateTracker.calculate_steady(val_max, val_min, val_curr)
CalculateSteady ==
    \E val_max \in SteadyInputs, val_min \in SteadyInputs,
       val_curr \in SteadyInputs :
        /\ ret' = [val_max  |-> val_max,
                   val_min  |-> val_min,
                   val_curr |-> val_curr,
                   value    |-> calculate_steady(val_max, val_min, val_curr)]
        /\ op' = "calculate_steady"
        /\ UNCHANGED <<state, prev_angle, prev_velocity, curr_angle,
                       curr_velocity, extrema_triggers, timestamp_sec,
                       angle_max, angle_min, velocity_max, velocity_min,
                       vel_steady_state, z_t, pos_steady_state, z_valid,
                       tmin, now, pre_state, gated, walk_on, stream>>

SpecSteady == Construct(TMIN) /\ [][CalculateSteady]_vars

(* --------------------- the two transition tables ---------------------- *)

\* Elapsed times of a WalkOnController: one inside the window
\* TMIN <= dt < TMAX and one at the timeout threshold.
ElapsedTimes == {RatInt(1), RatInt(TMAX)}

\* A HighLevelController and a WalkOnController as constructed, both then
\* set to the same state and the same previous and current sample.
InitTables ==
    \E s \in MotionState, pa \in Angles, ca \in Angles,
       pv \in Velocities, cv \in Velocities, d \in ElapsedTimes :
        /\ state = s
        /\ prev_angle = pa
        /\ prev_velocity = pv
        /\ curr_angle = ca
        /\ curr_velocity = cv
        /\ extrema_triggers = [vel_max |-> FALSE, ang_max |-> FALSE,
                               vel_min |-> FALSE, ang_min |-> FALSE]
        /\ timestamp_sec = Unset
        /\ angle_max = 0
        /\ angle_min = 0
        /\ velocity_max = 0
        /\ velocity_min = 0
        /\ vel_steady_state = RatInt(0)
        /\ z_t = RatInt(0)
        /\ pos_steady_state = RatInt(0)
        /\ z_valid = FALSE
        /\ tmin = TMIN
        /\ now = 0
        /\ pre_state = s
        /\ gated = FALSE
        /\ op = "__init__"
        /\ walk_on = [WalkOnController(MainFreq) EXCEPT
                          !.state = s, !.dt = d,
                          !.prev_angle = pa, !.curr_angle = ca,
                          !.prev_velocity = pv, !.curr_velocity = cv]
        /\ ret = NoReturn
        /\ stream = NoStream

\* Both tables run on the sample pair: update_triggers and detect_state of
\* the HighLevelController's ExtremaTrigger, update_state of the
\* WalkOnController.
RunTables ==
    \E trg \in {update_triggers(curr_angle, prev_angle,
                                curr_velocity, prev_velocity)} :
        /\ extrema_triggers' = trg
        /\ state' = detect_state(trg, state)
        /\ walk_on' = update_state(walk_on)
        /\ pre_state' = state
        /\ op' = "update_state"
        /\ UNCHANGED <<prev_angle, prev_velocity, curr_angle, curr_velocity,
                       timestamp_sec, angle_max, angle_min, velocity_max,
                       velocity_min, vel_steady_state, z_t, pos_steady_state,
                       z_valid, tmin, now, gated, ret, stream>>

SpecTables == InitTables /\ [][RunTables]_vars

(* ------------------- update on zeros of both signs -------------------- *)

\* The ordinary angles and velocities and -0.0.
SignedAngles == Angles \cup {NEGZERO}

SignedVelocities == Velocities \cup {NEGZERO}

\* The timestamps of a clock that ticks once per sample.
TickTimestamps == 1 .. MaxTime

UpdateSignedZero ==
    \E a \in SignedAngles, v \in SignedVelocities, t \in TickTimestamps :
        t = now + 1 /\ update(a, v, t) /\ UNCHANGED stream

\* A controller with the default thresholds fed finite samples whose zeros
\* are of either sign.
SpecSignedZero == Construct(TMIN) /\ [][UpdateSignedZero]_vars

(* ---------------- WalkOnController, its setters called ---------------- *)

\* The variables of the HighLevelController, which no method of the
\* WalkOnController touches.
high_level_vars ==
    <<state, prev_angle, prev_velocity, curr_angle, curr_velocity,
      extrema_triggers, timestamp_sec, angle_max, angle_min, velocity_max,
      velocity_min, vel_steady_state, z_t, pos_steady_state, z_valid, tmin,
      now, pre_state, gated>>

\* controller.curr_angle = ...
AssignCurrAngle ==
    \E a \in Angles :
        /\ walk_on' = [walk_on EXCEPT !.curr_angle = a]
        /\ op' = "curr_angle"
        /\ UNCHANGED <<high_level_vars, ret, stream>>

\* controller.curr_velocity = ...
AssignCurrVelocity ==
    \E v \in Velocities :
        /\ walk_on' = [walk_on EXCEPT !.curr_velocity = v]
        /\ op' = "curr_velocity"
        /\ UNCHANGED <<high_level_vars, ret, stream>>

\* controller.dt = ...
AssignDt ==
    \E d \in ElapsedTimes :
        /\ walk_on' = [walk_on EXCEPT !.dt = d]
        /\ op' = "dt"
        /\ UNCHANGED <<high_level_vars, ret, stream>>

SetStateAngleMax ==
    /\ walk_on' = set_state_angle_max(walk_on)
    /\ op' = "set_state_angle_max"
    /\ UNCHANGED <<high_level_vars, ret, stream>>

SetStateAngleMin ==
    /\ walk_on' = set_state_angle_min(walk_on)
    /\ op' = "set_state_angle_min"
    /\ UNCHANGED <<high_level_vars, ret, stream>>

SetStateVelocityMax ==
    /\ walk_on' = set_state_velocity_max(walk_on)
    /\ op' = "set_state_velocity_max"
    /\ UNCHANGED <<high_level_vars, ret, stream>>

SetStateVelocityMin ==
    /\ walk_on' = set_state_velocity_min(walk_on)
    /\ op' = "set_state_velocity_min"
    /\ UNCHANGED <<high_level_vars, ret, stream>>

SetStateInitial ==
    /\ walk_on' = set_state_initial(walk_on)
    /\ op' = "set_state_initial"
    /\ UNCHANGED <<high_level_vars, ret, stream>>

NextSetters ==
    \/ AssignCurrAngle
    \/ AssignCurrVelocity
    \/ AssignDt
    \/ SetStateAngleMax
    \/ SetStateAngleMin
    \/ SetStateVelocityMax
    \/ SetStateVelocityMin
    \/ SetStateInitial

\* A WalkOnController whose fields are assigned and whose setters are
\* called in any order.
SpecSetters == Construct(TMIN) /\ [][NextSetters]_vars

(* --------------------- WalkOnController, stepped ---------------------- *)

\* The loop frequencies of the WalkOnController, in steps per tick: the
\* 1 Hz of __main__, whose period is above TMAX, the frequency whose
\* period of 2 ticks is TMAX exactly, and 4 Hz, whose period of 5/6 tick
\* lets two steps pass below TMAX.
WalkOnFreqs == {MainFreq, Rat(1, 2), Rat(6, 5)}

InitWalkOn ==
    \E freq \in WalkOnFreqs :
        /\ state = INITIAL
        /\ prev_angle = 0
        /\ prev_velocity = 0
        /\ curr_angle = 0
        /\ curr_velocity = 0
        /\ extrema_triggers = [vel_max |-> FALSE, ang_max |-> FALSE,
                               vel_min |-> FALSE, ang_min |-> FALSE]
        /\ timestamp_sec = Unset
        /\ angle_max = 0
        /\ angle_min = 0
        /\ velocity_max = 0
        /\ velocity_min = 0
        /\ vel_steady_state = RatInt(0)
        /\ z_t = RatInt(0)
        /\ pos_steady_state = RatInt(0)
        /\ z_valid = FALSE
        /\ tmin = TMIN
        /\ now = 0
        /\ pre_state = INITIAL
        /\ gated = FALSE
        /\ op = "__init__"
        /\ walk_on = WalkOnController(freq)
        /\ ret = NoReturn
        /\ stream = NoStream

\* controller.step(theta, theta_dot); stopped tells whether the low level
\* reported the stop condition.
Step ==
    \E theta \in Angles, theta_dot \in Velocities, stopped \in BOOLEAN :
        /\ walk_on' = step(walk_on, theta, theta_dot, stopped)
        /\ op' = "step"
        /\ UNCHANGED <<high_level_vars, ret, stream>>

SpecWalkOn == InitWalkOn /\ [][Step]_vars

(* ------------------ update on a clock that keeps running -------------- *)

\* An update one tick after the one before.
UpdateLater ==
    \E a \in Angles, v \in Velocities, t \in EarlyTimestamps :
        t = now + 1 /\ update(a, v, t) /\ UNCHANGED stream

\* An update that carries the timestamp of the one before.
UpdateSameTime ==
    \E a \in Angles, v \in Velocities, t \in EarlyTimestamps :
        t = now /\ update(a, v, t) /\ UNCHANGED stream

NextClockRuns == UpdateLater \/ UpdateSameTime

\* A controller with the default thresholds whose caller's clock does not
\* stand still for ever: up to the first tick after TMAX an update with a
\* later timestamp comes.
SpecClockRuns ==
    Construct(TMIN) /\ [][NextClockRuns]_vars /\ WF_vars(UpdateLater)

(* ---------------- update on angles of the largest size ---------------- *)

\* 0.0, sys.float_info.max and -sys.float_info.max.
ExtremeAngles == {-FLOAT_MAX, 0, BIG}

UpdateExtreme ==
    \E a \in ExtremeAngles, v \in Velocities, t \in TickTimestamps :
        t = now + 1 /\ update(a, v, t) /\ UNCHANGED stream

\* A controller with the default thresholds fed finite samples whose angles
\* reach the largest finite floats.
SpecExtreme == Construct(TMIN) /\ [][UpdateExtreme]_vars

(* --------------- the detectors on three consecutive values ------------ *)

\* The values of a signal: the ordinary ones, nan, inf and -0.0.
SignalValues == FloatAngles \cup SignedAngles

\* hit_zero_crossing_from_upper and hit_zero_crossing_from_lower called on
\* the two pairs of three consecutive values of a signal: first on
\* (before, prev), then on (prev, curr), where curr is the next value of
\* the signal.
HitZeroCrossingTwice ==
    \E x \in SignalValues :
        /\ ret' = [before |-> prev_angle,
                   prev |-> curr_angle,
                   curr |-> x,
                   first_from_upper |->
                       hit_zero_crossing_from_upper(curr_angle, prev_angle),
                   first_from_lower |->
                       hit_zero_crossing_from_lower(curr_angle, prev_angle),
                   from_upper |-> hit_zero_crossing_from_upper(x, curr_angle),
                   from_lower |-> hit_zero_crossing_from_lower(x, curr_angle)]
        /\ prev_angle' = curr_angle
        /\ curr_angle' = x
        /\ op' = "hit_zero_crossing_twice"
        /\ UNCHANGED <<state, prev_velocity, curr_velocity,
                       extrema_triggers, timestamp_sec,
                       angle_max, angle_min, velocity_max, velocity_min,
                       vel_steady_state, z_t, pos_steady_state, z_valid,
                       tmin, now, pre_state, gated, walk_on, stream>>

SpecSignal == InitTriggers /\ [][HitZeroCrossingTwice]_vars

(* ------------------------------ claims -------------------------------- *)

\* The cycle VELOCITY_MAX -> ANGLE_MAX -> VELOCITY_MIN -> ANGLE_MIN ->
\* VELOCITY_MAX of detect_state's documentation.
CycleNext(s) ==
    CASE s = VELOCITY_MAX -> ANGLE_MAX
      [] s = ANGLE_MAX    -> VELOCITY_MIN
      [] s = VELOCITY_MIN -> ANGLE_MIN
      [] s = ANGLE_MIN    -> VELOCITY_MAX

\* The flag of trg that belongs to state s.
TriggerOf(trg, s) ==
    CASE s = VELOCITY_MAX -> trg.vel_max
      [] s = ANGLE_MAX    -> trg.ang_max
      [] s = VELOCITY_MIN -> trg.vel_min
      [] s = ANGLE_MIN    -> trg.ang_min

\* The flags of the sample pair the controller holds.
SampleTriggers ==
    update_triggers(curr_angle, prev_angle, curr_velocity, prev_velocity)

\* The flags of the sample pair of the update being taken.
SampleTriggersNext ==
    update_triggers(curr_angle', curr_angle, curr_velocity', curr_velocity)

\* C1: whenever an update changes the state from a non-INITIAL state S to a
\* non-INITIAL state, the new state is the successor of S in the cycle.
C1_CyclicOrder ==
    (op = "update" /\ pre_state # INITIAL /\ state # INITIAL /\ state # pre_state)
        => state = CycleNext(pre_state)

\* C1 witness: an update has closed the cycle, ANGLE_MIN -> VELOCITY_MAX.
C1_Witness ==
    op = "update" /\ pre_state = ANGLE_MIN /\ state = VELOCITY_MAX

\* The time of the last accepted transition, where the controller state
\* still tells it: the timer in a non-INITIAL state, and the time of the
\* latest update when that update timed out into INITIAL.
JustTimedOut == op = "update" /\ pre_state # INITIAL /\ state = INITIAL

LastAcceptKnown == state # INITIAL \/ JustTimedOut

LastAccept == IF state # INITIAL THEN timestamp_sec ELSE now

C3_NoExpectedTrigger ==
    [][(/\ state # INITIAL
        /\ ~(now' - timestamp_sec >= TMAX)
        /\ ~TriggerOf(SampleTriggersNext, CycleNext(state)))
           => UNCHANGED <<state, timestamp_sec, extrema>>]_vars

\* C3 witness: in VELOCITY_MAX the trigger logic ran on a sample with
\* ang_min true and ang_max false, and the state is still VELOCITY_MAX.
C3_Witness ==
    /\ op = "update" /\ ~gated
    /\ pre_state = VELOCITY_MAX /\ state = VELOCITY_MAX
    /\ extrema_triggers.ang_min /\ ~extrema_triggers.ang_max

PriorityOrder ==
    <<<<"vel_max", VELOCITY_MAX>>, <<"ang_max", ANGLE_MAX>>,
      <<"vel_min", VELOCITY_MIN>>, <<"ang_min", ANGLE_MIN>>>>

\* The state of the first true flag of f in that order, INITIAL when no
\* flag is true.
HighestPriority(f) ==
    LET hits == {i \in 1 .. Len(PriorityOrder) : f[PriorityOrder[i][1]]}
    IN  IF hits = {} THEN INITIAL
        ELSE PriorityOrder[CHOOSE i \in hits : \A j \in hits : i <= j][2]

NoFlag(f) == ~f.vel_max /\ ~f.ang_max /\ ~f.vel_min /\ ~f.ang_min

\* C5: for every combination of the four flags, detect_state(INITIAL)
\* returns the state of the highest-priority true flag in the order
\* vel_max > ang_max > vel_min > ang_min, and INITIAL iff no flag is true.
C5_InitialPriority ==
    (op = "detect_state" /\ pre_state = INITIAL)
        => /\ state = HighestPriority(extrema_triggers)
           /\ (state = INITIAL <=> NoFlag(extrema_triggers))

\* C5 witness: detect_state(INITIAL) was called with ang_max, vel_min and
\* ang_min all true and returned ANGLE_MAX.
C5_Witness ==
    /\ op = "detect_state" /\ pre_state = INITIAL
    /\ extrema_triggers = [vel_max |-> FALSE, ang_max |-> TRUE,
                           vel_min |-> TRUE, ang_min |-> TRUE]
    /\ state = ANGLE_MAX

\* C6: an update that accepts a transition into a non-INITIAL state D
\* overwrites exactly the slot of D with the sample's value (angle for
\* ANGLE_MAX / ANGLE_MIN, velocity for VELOCITY_MAX / VELOCITY_MIN), keeps
\* the other three slots and sets the transition timer to the sample's
\* timestamp.
C6_EntryRecordsSample ==
    [][(state' # state /\ state' # INITIAL)
           => /\ timestamp_sec' = now'
              /\ angle_max' = IF state' = ANGLE_MAX THEN curr_angle'
                              ELSE angle_max
              /\ angle_min' = IF state' = ANGLE_MIN THEN curr_angle'
                              ELSE angle_min
              /\ velocity_max' = IF state' = VELOCITY_MAX THEN curr_velocity'
                                 ELSE velocity_max
              /\ velocity_min' = IF state' = VELOCITY_MIN THEN curr_velocity'
                                 ELSE velocity_min]_vars

\* C6 witness: the latest update, at a tick after 0, moved VELOCITY_MAX ->
\* ANGLE_MAX; angle_max holds its angle, the timer its timestamp, and
\* velocity_max still holds the value recorded before.
C6_Witness ==
    /\ op = "update" /\ pre_state = VELOCITY_MAX /\ state = ANGLE_MAX
    /\ angle_max = curr_angle /\ angle_max # 0
    /\ timestamp_sec = now /\ now > 0
    /\ velocity_max # 0 /\ velocity_max # curr_velocity

\* C7: the controller starts in INITIAL with the four slots 0, and an
\* update that does not enter state X (no transition, a debounced sample,
\* a timeout into INITIAL) leaves the slot of X unchanged.
C7_WrittenOnlyOnEntry ==
    /\ (state = INITIAL /\ extrema = <<0, 0, 0, 0>>)
    /\ [][/\ (~(state' = VELOCITY_MAX /\ state # VELOCITY_MAX)
                 => velocity_max' = velocity_max)
          /\ (~(state' = ANGLE_MAX /\ state # ANGLE_MAX)
                 => angle_max' = angle_max)
          /\ (~(state' = VELOCITY_MIN /\ state # VELOCITY_MIN)
                 => velocity_min' = velocity_min)
          /\ (~(state' = ANGLE_MIN /\ state # ANGLE_MIN)
                 => angle_min' = angle_min)]_vars

\* C7 witness: the latest update timed out into INITIAL and all four slots
\* still hold recorded (non-zero) values.
C7_Witness ==
    /\ JustTimedOut
    /\ velocity_max # 0 /\ angle_max # 0 /\ velocity_min # 0 /\ angle_min # 0

\* C8: on a sample that times out no trigger logic runs: the update ends
\* in INITIAL with the flags and the slots as they were, even when the
\* sample contains a valid trigger.
C8_TimeoutSkipsTriggers ==
    [][(state # INITIAL /\ now' - timestamp_sec >= TMAX)
           => /\ state' = INITIAL
              /\ UNCHANGED <<extrema_triggers, extrema>>]_vars

\* C8 witness: the latest update timed out into INITIAL on a sample pair
\* that has a valid trigger.
C8_Witness ==
    JustTimedOut /\ gated /\ ~NoFlag(SampleTriggers)

\* The position candidate of the current fields:
\* z_t * (curr_angle - (angle_max + angle_min) / 2).
PosCandidate ==
    RatMul(z_t, RatSub(RatInt(curr_angle), Rat(angle_max + angle_min, 2)))

\* C9: in every reachable state pos_steady_state lies in [-10, 10].
C9_PositionBounded ==
    /\ RatLeq(RatInt(LOWER), pos_steady_state)
    /\ RatLeq(pos_steady_state, RatInt(UPPER))

\* C9 witness: after an update the candidate is above 10 and
\* pos_steady_state holds an earlier, non-zero value.
C9_Witness ==
    /\ op = "update"
    /\ ~RatLeq(PosCandidate, RatInt(UPPER))
    /\ pos_steady_state[1] # 0

\* C10: in each update the candidate z * (curr_angle - (angle_max +
\* angle_min) / 2) is computed with the z_t assigned in that update;
\* pos_steady_state becomes the candidate iff it is within [-10, 10], both
\* ends included, and otherwise keeps its value.
C10_PositionRule ==
    [][LET cand == RatMul(z_t', RatSub(RatInt(curr_angle'),
                                       Rat(angle_max' + angle_min', 2)))
       IN  pos_steady_state' =
               IF RatLeq(RatInt(-10), cand) /\ RatLeq(cand, RatInt(10))
               THEN cand ELSE pos_steady_state]_vars

\* C10 witness: pos_steady_state was accepted at exactly 10 and is kept by
\* an update whose candidate is below -10.
C10_Witness ==
    /\ op = "update"
    /\ ~RatLeq(RatInt(LOWER), PosCandidate)
    /\ pos_steady_state = RatInt(UPPER)

\* C11: for any sequence of updates with finite angles and velocities, the
\* stored z_t is a finite number in every reachable state: never NaN,
\* never infinite (a computed ratio that is not finite is not stored).
C11_RatioFinite == IsFinite(z_t)

\* C12: an update during which the angle amplitude is degenerate
\* (angle_max = angle_min before and after its transition) leaves z_t
\* other than NaN and pos_steady_state at the value it had before.
C12_DegenerateAmplitude ==
    [][(angle_max = angle_min /\ angle_max' = angle_min')
           => (~IsNaN(z_t') /\ pos_steady_state' = pos_steady_state)]_vars

\* C13: after every update, gated (debounced, timed out) or not, the
\* steady-state values are those of the current sample and of the extrema
\* slots as that update left them: vel_steady_state = curr_velocity -
\* (velocity_max + velocity_min) / 2, z_t = |velocity_max - velocity_min| /
\* |angle_max - angle_min| (1e-6 for a zero divisor), and pos_steady_state
\* is the candidate z_t * (curr_angle - (angle_max + angle_min) / 2)
\* whenever that candidate is within [-10, 10].
C13_SteadyFromCurrentMemory ==
    op = "update"
        => /\ vel_steady_state =
                  RatSub(RatInt(curr_velocity),
                         Rat(velocity_max + velocity_min, 2))
           /\ z_t = IF angle_max = angle_min
                    THEN RatInt(Abs(velocity_max - velocity_min) * NEAR_ZERO_INV)
                    ELSE Rat(Abs(velocity_max - velocity_min),
                             Abs(angle_max - angle_min))
           /\ ((RatLeq(RatInt(LOWER), PosCandidate)
                   /\ RatLeq(PosCandidate, RatInt(UPPER)))
                  => pos_steady_state = PosCandidate)

\* C13 witness: the latest update moved VELOCITY_MAX -> ANGLE_MAX, and
\* z_t and pos_steady_state are already those of the angle_max it
\* recorded.
C13_Witness ==
    /\ op = "update" /\ pre_state = VELOCITY_MAX /\ state = ANGLE_MAX
    /\ angle_max = curr_angle /\ angle_min = 0
    /\ z_t = Rat(Abs(velocity_max - velocity_min), angle_max)
    /\ pos_steady_state = RatMul(z_t, Rat(angle_max, 2))
    /\ pos_steady_state[1] # 0

ControllerFields ==
    <<state, prev_angle, prev_velocity, curr_angle, curr_velocity,
      extrema_triggers, timestamp_sec, extrema, vel_steady_state, z_t,
      pos_steady_state>>

\* C15: an update whose timestamp is smaller than that of the call before
\* it is refused: it processes nothing and leaves every field of the
\* controller as it was.
C15_MonotonicTimestamps ==
    [][now' < now => UNCHANGED ControllerFields]_vars

\* x is NaN or infinite.
NonFinite(x) == x = NAN \/ x = INF

\* C16: an update whose angle or velocity is NaN or infinite fails: the
\* sample is not taken and every field of the controller stays as it was.
C16_RejectsNonFinite ==
    [][(NonFinite(curr_angle') \/ NonFinite(curr_velocity'))
           => UNCHANGED ControllerFields]_vars

\* C17 as stated: when the trigger logic runs on a (previous, current)
\* pair in which an angle or a velocity is NaN, all four flags are false
\* and the state does not change.
C17_Original ==
    (/\ op = "update" /\ ~gated
     /\ NAN \in {prev_angle, curr_angle, prev_velocity, curr_velocity})
        => (NoFlag(extrema_triggers) /\ state = pre_state)

\* C17 amended: when the trigger logic runs, a flag is false whenever one
\* of the three values it is computed from is NaN: vel_max and vel_min
\* when the previous or current angle or the current velocity is NaN,
\* ang_max and ang_min when the previous or current velocity or the
\* current angle is NaN.  So a NaN in the current sample makes all four
\* flags false and the state does not change.
C17_NaNNoTrigger ==
    (op = "update" /\ ~gated)
        => /\ (NAN \in {prev_angle, curr_angle, curr_velocity})
                  => (~extrema_triggers.vel_max /\ ~extrema_triggers.vel_min)
           /\ (NAN \in {prev_velocity, curr_velocity, curr_angle})
                  => (~extrema_triggers.ang_max /\ ~extrema_triggers.ang_min)
           /\ (NAN \in {curr_angle, curr_velocity})
                  => (NoFlag(extrema_triggers) /\ state = pre_state)

\* C17 witness: the trigger logic ran on a NaN previous angle followed by
\* a positive angle with a positive velocity; vel_max is false and the
\* state has not changed.
C17_Witness ==
    /\ op = "update" /\ ~gated
    /\ prev_angle = NAN /\ curr_angle = AngStep /\ curr_velocity = VelStep
    /\ ~extrema_triggers.vel_max
    /\ state = pre_state

\* C18: no controller exists under thresholds with TMAX <= TMIN: its
\* construction is rejected, so no update is ever processed under them.
C18_ThresholdsChecked == tmin < TMAX

\* The float comparisons with 0 of the trigger conditions.
Positive(x) == RatLeq(RatInt(0), Float(x)) /\ Float(x) # RatInt(0)

Negative(x) == RatLeq(Float(x), RatInt(0)) /\ Float(x) # RatInt(0)

NotPositive(x) == RatLeq(Float(x), RatInt(0))

NotNegative(x) == RatLeq(RatInt(0), Float(x))

\* C19: for every previous and current angle and velocity, after
\* update_triggers vel_max is true iff the angle went from <= 0 to > 0 and
\* the current velocity is > 0; ang_max iff the velocity went from >= 0 to
\* < 0 and the current angle is > 0; vel_min iff the angle went from >= 0
\* to < 0 and the current velocity is < 0; ang_min iff the velocity went
\* from <= 0 to > 0 and the current angle is < 0.
C19_TriggerValidity ==
    op = "update_triggers"
        => /\ extrema_triggers.vel_max <=>
                  (/\ NotPositive(prev_angle) /\ Positive(curr_angle)
                   /\ Positive(curr_velocity))
           /\ extrema_triggers.ang_max <=>
                  (/\ NotNegative(prev_velocity) /\ Negative(curr_velocity)
                   /\ Positive(curr_angle))
           /\ extrema_triggers.vel_min <=>
                  (/\ NotNegative(prev_angle) /\ Negative(curr_angle)
                   /\ Negative(curr_velocity))
           /\ extrema_triggers.ang_min <=>
                  (/\ NotPositive(prev_velocity) /\ Positive(curr_velocity)
                   /\ Negative(curr_angle))

\* C19 witness: update_triggers ran on an angle crossing from 0 to
\* positive under a negative current velocity: the zero crossing is
\* there, the sign is wrong, and vel_max is false.
C19_Witness ==
    /\ op = "update_triggers"
    /\ prev_angle = 0 /\ curr_angle = AngStep /\ curr_velocity = -VelStep
    /\ prev_velocity = -VelStep
    /\ NoFlag(extrema_triggers)

\* The number of true flags of f.
FlagCount(f) ==
    Cardinality({n \in {"vel_max", "ang_max", "vel_min", "ang_min"} : f[n]})

\* C20 as stated: the update_triggers that has run is one for which
\* there are previous and current samples that set more than one flag
\* true.
C20_Original ==
    op = "update_triggers"
        => \E pa \in FloatAngles, ca \in FloatAngles,
              pv \in FloatVelocities, cv \in FloatVelocities :
               FlagCount(update_triggers(ca, pa, cv, pv)) > 1

\* C20 amended: the four flags exclude each other: after update_triggers
\* at most one of them is true, whatever the samples.
C20_AtMostOneFlag ==
    op = "update_triggers" => FlagCount(extrema_triggers) <= 1

\* C20 witness: update_triggers ran on a sample pair in which angle and
\* velocity both cross zero upwards, and vel_max alone is true.
C20_Witness ==
    /\ op = "update_triggers"
    /\ prev_angle = -AngStep /\ curr_angle = AngStep
    /\ prev_velocity = -VelStep /\ curr_velocity = VelStep
    /\ extrema_triggers.vel_max
    /\ FlagCount(extrema_triggers) = 1

\* C21: after any update, debounced and timed-out ones included, the four
\* flags are those of the (previous, current) sample pair of that update:
\* no flag carries over from an earlier update.
C21_FlagsOfThisUpdate ==
    op = "update" => extrema_triggers = SampleTriggers

\* The second sample of the scenario has just been processed: under the
\* one-tick clock the controller was constructed, fed (angle 0.3,
\* velocity 0.1) at tick 1 and (angle 0.3, velocity -0.1) at tick 2, one
\* tick (0.3 s) being a dt with TMIN <= dt < TMAX.  AngStep stands for the
\* angle 0.3 and VelStep for the velocity 0.1.
ScenarioFed ==
    /\ op = "update" /\ now = 2
    /\ prev_angle = AngStep /\ prev_velocity = VelStep
    /\ curr_angle = AngStep /\ curr_velocity = -VelStep
    /\ tmin <= 1 /\ 1 < TMAX

\* C22 as stated: on a freshly constructed controller the samples (angle
\* 0.3, velocity 0.1), (angle 0.3, velocity -0.1), TMIN <= dt < TMAX
\* apart, make ang_max true on the second sample, which moves the state
\* from INITIAL to ANGLE_MAX with angle_max = 0.3.
C22_Original ==
    ScenarioFed
        => /\ extrema_triggers.ang_max
           /\ pre_state = INITIAL /\ state = ANGLE_MAX
           /\ angle_max = AngStep

\* C22 amended: in that scenario the first sample already moves the state
\* from INITIAL to VELOCITY_MAX (vel_max against the zero-initialised
\* previous sample) and records velocity_max = 0.1; the second sample
\* makes ang_max true and moves the state from VELOCITY_MAX to ANGLE_MAX
\* with angle_max = 0.3.
C22_Scenario ==
    ScenarioFed
        => /\ extrema_triggers.ang_max
           /\ pre_state = VELOCITY_MAX /\ state = ANGLE_MAX
           /\ angle_max = AngStep /\ velocity_max = VelStep
           /\ timestamp_sec = now

\* C22 witness: the scenario has run with dt exactly TMIN (one tick) and
\* the state is ANGLE_MAX.
C22_Witness ==
    ScenarioFed /\ tmin = 1 /\ state = ANGLE_MAX

\* C23: for every prev and curr, hit_zero_crossing_from_upper is true iff
\* prev >= 0 and curr < 0, and hit_zero_crossing_from_lower is true iff
\* prev <= 0 and curr > 0; a curr of exactly 0 is never a crossing, and
\* the two detectors are never both true of the same pair.
C23_ZeroCrossing ==
    op = "hit_zero_crossing"
        => /\ ret.from_upper <=> (NotNegative(ret.prev) /\ Negative(ret.curr))
           /\ ret.from_lower <=> (NotPositive(ret.prev) /\ Positive(ret.curr))
           /\ (ret.curr = 0 => (~ret.from_upper /\ ~ret.from_lower))
           /\ ~(ret.from_upper /\ ret.from_lower)

\* C23 witness: the detectors were called on a value leaving exactly 0
\* downwards: from_upper is true and from_lower is false.
C23_Witness ==
    /\ op = "hit_zero_crossing"
    /\ ret.prev = 0 /\ ret.curr = -AngStep
    /\ ret.from_upper /\ ~ret.from_lower

(* ----------------------- update on an ordered stream ------------------ *)

\* The valid triggers of a sample stream are the flags of its (previous,
\* current) pairs, the zero-initialised sample of __init__ being the
\* previous one of the first.  stream.kind is the state of the latest
\* trigger of the stream and stream.time its timestamp; stream.late says
\* that some sample came TMAX or more after the latest trigger before it;
\* stream.entered lists the states the controller entered, the latest
\* five of them.

\* The flags of the pair that ends with the sample (a, v).
StreamTriggers(a, v) == update_triggers(a, curr_angle, v, curr_velocity)

\* The sample (a, v) at time t keeps the triggers of the stream in cyclic
\* order and less than TMAX apart: it carries no trigger, or the first
\* trigger of the stream, or the trigger that follows the latest one in
\* the cycle, less than TMAX after it.
InOrder(a, v, t) ==
    IF NoFlag(StreamTriggers(a, v)) \/ stream.kind = INITIAL THEN TRUE
    ELSE /\ HighestPriority(StreamTriggers(a, v)) = CycleNext(stream.kind)
         /\ t - stream.time < TMAX

\* The latest five elements of the sequence s with x appended.
Latest(s, x) ==
    IF Len(s) < 5 THEN Append(s, x) ELSE Append(Tail(s), x)

\* One sample of an ordered stream on a monotonic clock.
UpdateInOrder ==
    \E a \in Angles, v \in Velocities, t \in Timestamps :
    \E f \in {StreamTriggers(a, v)} :
        /\ t >= now
        /\ InOrder(a, v, t)
        /\ update(a, v, t)
        /\ stream' =
               [kind    |-> IF NoFlag(f) THEN stream.kind
                            ELSE HighestPriority(f),
                time    |-> IF NoFlag(f) THEN stream.time ELSE t,
                late    |-> \/ stream.late
                            \/ (stream.kind # INITIAL /\ t - stream.time >= TMAX),
                entered |-> IF state' # state
                            THEN Latest(stream.entered, state')
                            ELSE stream.entered]

\* A controller with the default thresholds fed an ordered stream.
SpecInOrder == Construct(TMIN) /\ [][UpdateInOrder]_vars

\* C24 as stated: on a stream whose valid triggers occur in cyclic order,
\* consecutive ones less than TMAX apart, after every update on which a
\* flag is true the state is the state of that flag, the state entered
\* four transitions after another is the same state, and the state is not
\* INITIAL once the first trigger has occurred.
C24_Original ==
    /\ (op = "update" /\ ~NoFlag(SampleTriggers))
           => state = HighestPriority(SampleTriggers)
    /\ Len(stream.entered) = 5 => stream.entered[5] = stream.entered[1]
    /\ stream.kind # INITIAL => state # INITIAL

\* C24 amended: on such a stream, as long as no sample has come TMAX or
\* more after the latest trigger before it, the state is the state of the
\* latest trigger (so never INITIAL after the first trigger), entered at
\* that trigger's timestamp, and the state entered four transitions after
\* another is the same state; after every update on which a flag is true
\* the state is the state of that flag.
C24_InOrderStream ==
    /\ (op = "update" /\ ~NoFlag(SampleTriggers))
           => state = HighestPriority(SampleTriggers)
    /\ ~stream.late
           => /\ state = stream.kind
              /\ state # INITIAL => timestamp_sec = stream.time
              /\ Len(stream.entered) = 5
                     => stream.entered[5] = stream.entered[1]

\* C24 witness: the controller has followed five triggers of an ordered
\* stream and is back in the state of the first.
C24_Witness ==
    /\ ~stream.late
    /\ Len(stream.entered) = 5
    /\ stream.entered[1] = ANGLE_MAX /\ state = ANGLE_MAX
    /\ op = "update" /\ extrema_triggers.ang_max

\* The number a finite input value stands for (all of SteadyInputs are
\* whole numbers).
Exact(x) == Float(x)[1]

\* C25: for all finite arguments calculate_steady returns val_curr -
\* (val_max + val_min) / 2, so it returns 0 when val_curr is the midpoint
\* of val_max and val_min, and it is symmetric in val_max and val_min.
C25_Centering ==
    op = "calculate_steady"
        => /\ ret.value =
                  RatSub(Float(ret.val_curr),
                         RatDiv(RatAdd(Float(ret.val_max), Float(ret.val_min)),
                                RatInt(2)))
           /\ (2 * Exact(ret.val_curr) = Exact(ret.val_max) + Exact(ret.val_min))
                  => ret.value = RatInt(0)
           /\ ret.value =
                  calculate_steady(ret.val_min, ret.val_max, ret.val_curr)

\* The elapsed time of the WalkOnController is inside its window.
WalkOnInWindow ==
    /\ RatLeq(RatInt(TMIN), walk_on.dt)
    /\ ~RatLeq(RatInt(TMAX), walk_on.dt)

\* C26: the two transition tables are not equivalent.  Run on the same
\* flags from the same state S, the WalkOnController inside its time
\* window: from INITIAL a flag moves the HighLevelController to the state
\* X of that flag and the WalkOnController to the successor of X; from
\* another S the HighLevelController moves (to the successor of S) iff
\* the flag of that successor is true and the WalkOnController iff the
\* flag of S itself is true.  So whenever one of them moves they reach
\* different states, and they go through the cycle on different flags.
C26_TablesDiffer ==
    [][(state = walk_on.state /\ WalkOnInWindow)
           => /\ (state' # state \/ walk_on'.state # state)
                     => state' # walk_on'.state
              /\ (state = INITIAL /\ ~NoFlag(SampleTriggers))
                     => /\ state' = HighestPriority(SampleTriggers)
                        /\ walk_on'.state = CycleNext(state')
              /\ state # INITIAL
                     => /\ state' = IF TriggerOf(SampleTriggers, CycleNext(state))
                                    THEN CycleNext(state) ELSE state
                        /\ walk_on'.state = IF TriggerOf(SampleTriggers, state)
                                            THEN CycleNext(state) ELSE state]_vars

\* C26 witness: both tables were run from VELOCITY_MAX on a pair with
\* vel_max true: the HighLevelController is still in VELOCITY_MAX, the
\* WalkOnController has moved on to ANGLE_MAX.
C26_Witness ==
    /\ op = "update_state" /\ pre_state = VELOCITY_MAX
    /\ extrema_triggers.vel_max
    /\ state = VELOCITY_MAX
    /\ walk_on.state = ANGLE_MAX /\ walk_on.angle_max = curr_angle
    /\ walk_on.dt = RatInt(1)

\* C27: the gait phase read after an update lies in (-pi, pi]: it is a
\* number, and it is not -pi.
C27_PhaseInHalfOpenInterval ==
    op = "update" => /\ calculate_gait_phase # PhaseNaN
                     /\ calculate_gait_phase # PhaseMinusPi

\* C28: each of set_state_angle_max, set_state_angle_min,
\* set_state_velocity_max and set_state_velocity_min of the
\* WalkOnController sets state to the state it names and stores the
\* current angle (ANGLE_*) or the current velocity (VELOCITY_*) in the slot
\* of that name and in no other; set_state_initial sets state to INITIAL
\* and dt to 0 and leaves the four slots as they were.
C28_Setters ==
    [][/\ op' = "set_state_angle_max"
            => /\ walk_on'.state = ANGLE_MAX
               /\ walk_on'.angle_max = walk_on.curr_angle
               /\ walk_on'.angle_min = walk_on.angle_min
               /\ walk_on'.velocity_max = walk_on.velocity_max
               /\ walk_on'.velocity_min = walk_on.velocity_min
       /\ op' = "set_state_angle_min"
            => /\ walk_on'.state = ANGLE_MIN
               /\ walk_on'.angle_min = walk_on.curr_angle
               /\ walk_on'.angle_max = walk_on.angle_max
               /\ walk_on'.velocity_max = walk_on.velocity_max
               /\ walk_on'.velocity_min = walk_on.velocity_min
       /\ op' = "set_state_velocity_max"
            => /\ walk_on'.state = VELOCITY_MAX
               /\ walk_on'.velocity_max = walk_on.curr_velocity
               /\ walk_on'.angle_max = walk_on.angle_max
               /\ walk_on'.angle_min = walk_on.angle_min
               /\ walk_on'.velocity_min = walk_on.velocity_min
       /\ op' = "set_state_velocity_min"
            => /\ walk_on'.state = VELOCITY_MIN
               /\ walk_on'.velocity_min = walk_on.curr_velocity
               /\ walk_on'.angle_max = walk_on.angle_max
               /\ walk_on'.angle_min = walk_on.angle_min
               /\ walk_on'.velocity_max = walk_on.velocity_max
       /\ op' = "set_state_initial"
            => /\ walk_on'.state = INITIAL
               /\ walk_on'.dt = RatInt(0)
               /\ walk_on'.angle_max = walk_on.angle_max
               /\ walk_on'.angle_min = walk_on.angle_min
               /\ walk_on'.velocity_max = walk_on.velocity_max
               /\ walk_on'.velocity_min = walk_on.velocity_min]_vars

\* set_state_initial has run on a controller whose four slots had been
\* stored by the four other setters and whose dt had been assigned.
C28_Witness ==
    /\ op = "set_state_initial"
    /\ walk_on.state = INITIAL /\ walk_on.dt = RatInt(0)
    /\ walk_on.angle_max = AngStep /\ walk_on.angle_min = -AngStep
    /\ walk_on.velocity_max = VelStep /\ walk_on.velocity_min = -VelStep

\* C29: a step of the WalkOnController that enters ANGLE_MAX, ANGLE_MIN,
\* VELOCITY_MAX or VELOCITY_MIN leaves the timer dt at zero.
C29_TimerResets ==
    [][(/\ op' = "step"
        /\ walk_on'.state # walk_on.state
        /\ walk_on'.state # INITIAL) => walk_on'.dt = RatInt(0)]_vars

\* The orders in which four tests can be made: the permutations of the
\* positions of PriorityOrder.
TestOrders ==
    {p \in [1 .. 4 -> 1 .. 4] : \A i, j \in 1 .. 4 : i # j => p[i] # p[j]}

\* What _handle_initial_state selects when it makes its four tests in the
\* order perm: the state of the first true flag, INITIAL when none is.
HandleInitialStateInOrder(trg, perm) ==
    LET hits == {i \in 1 .. 4 : trg[PriorityOrder[perm[i]][1]]}
    IN  IF hits = {} THEN INITIAL
        ELSE PriorityOrder[perm[CHOOSE i \in hits :
                                    \A j \in hits : i <= j]][2]

\* C30: on the flags that update_triggers makes of a sample pair, the order
\* of the four tests of _handle_initial_state does not matter: every
\* permutation of the tests selects the state that detect_state(INITIAL)
\* returns.
C30_OrderUnimportant ==
    (op = "detect_state" /\ pre_state = INITIAL)
        => \A perm \in TestOrders :
               HandleInitialStateInOrder(extrema_triggers, perm) = state

\* detect_state(INITIAL) has selected ANGLE_MIN, the state of the flag
\* that the code tests last, on the flags of a sample pair.
C30_Witness ==
    /\ op = "detect_state" /\ pre_state = INITIAL
    /\ extrema_triggers = SampleTriggers
    /\ extrema_triggers.ang_min
    /\ state = ANGLE_MIN

\* C31: in every state reachable through update calls velocity_max >= 0,
\* angle_max >= 0, velocity_min <= 0 and angle_min <= 0, and a slot is 0
\* only if it was never written: the update that enters a state writes a
\* value other than 0 into the slot of that state.
C31_SignInvariant ==
    /\ [](/\ GeZero(velocity_max) /\ GeZero(angle_max)
          /\ LeZero(velocity_min) /\ LeZero(angle_min))
    /\ [][/\ (state' = VELOCITY_MAX /\ state # VELOCITY_MAX)
                 => GtZero(velocity_max')
          /\ (state' = ANGLE_MAX /\ state # ANGLE_MAX)
                 => GtZero(angle_max')
          /\ (state' = VELOCITY_MIN /\ state # VELOCITY_MIN)
                 => LtZero(velocity_min')
          /\ (state' = ANGLE_MIN /\ state # ANGLE_MIN)
                 => LtZero(angle_min')]_vars

\* C31 witness: an update has entered ANGLE_MIN and written its slot, the
\* three other slots having been written by earlier updates.
C31_Witness ==
    /\ op = "update" /\ state = ANGLE_MIN /\ pre_state = VELOCITY_MIN
    /\ velocity_max = VelStep /\ angle_max = AngStep
    /\ velocity_min = -VelStep /\ angle_min = -AngStep

\* C32: in every reachable state other than INITIAL timestamp_sec has been
\* assigned and is not None, so that _check_timeout, which reads it in
\* those states only, never reads an attribute that does not exist.
C32_TimerAvailable ==
    state # INITIAL => (timestamp_sec # Unset /\ timestamp_sec # None)

\* C32 witness: an update has entered a state from INITIAL on a controller
\* whose timer had never been assigned or had been cleared by a timeout,
\* and the timer holds the timestamp of that update.
C32_Witness ==
    /\ op = "update" /\ pre_state = INITIAL /\ state # INITIAL
    /\ timestamp_sec = now

\* The timestamps that leave room for a timeout before the clock ends.
TimeoutInReach == {k \in 0 .. TMAX : k + TMAX \in EarlyTimestamps}

\* C33: after every update with timestamp t a state other than INITIAL has
\* t - timestamp_sec < TMAX; hence, when the timestamps keep growing, a
\* state entered at time k either becomes INITIAL or is left by a
\* transition accepted after k.
C33_BoundedDwell ==
    /\ []((op = "update" /\ state # INITIAL) => now - timestamp_sec < TMAX)
    /\ \A k \in TimeoutInReach :
           [](((state # INITIAL /\ timestamp_sec = k)
                => <>(state = INITIAL \/ timestamp_sec > k)))

\* C33 witness: an update has left a state other than INITIAL in place one
\* tick before its timeout.
C33_Witness ==
    /\ op = "update" /\ state # INITIAL /\ pre_state = state
    /\ now - timestamp_sec = TMAX - 1
    /\ timestamp_sec \in TimeoutInReach

\* Every combination of the four flags.
AllFlags ==
    [vel_max : BOOLEAN, ang_max : BOOLEAN, vel_min : BOOLEAN,
     ang_min : BOOLEAN]

\* C34: an update changes the state from a state other than INITIAL to
\* INITIAL only when its timestamp lies TMAX or more after the last
\* accepted transition, and in no state other than INITIAL does
\* detect_state return INITIAL, whatever the flags.
C34_InitialOnlyByTimeout ==
    [][state # INITIAL
           => /\ state' = INITIAL => now' - timestamp_sec >= TMAX
              /\ \A trg \in AllFlags : detect_state(trg, state) # INITIAL]_vars

\* C34 witness: an update later than the first possible timeout has timed
\* out into INITIAL on a sample pair without a trigger.
C34_Witness ==
    JustTimedOut /\ now > TMAX /\ NoFlag(SampleTriggers)

\* C35: the first update after construction compares its sample with the
\* previous sample (0, 0) of __init__: a first sample with angle > 0 and
\* velocity > 0 moves the state from INITIAL to VELOCITY_MAX and records
\* its velocity in velocity_max, and a first sample with angle < 0 and
\* velocity < 0 moves it to VELOCITY_MIN and records velocity_min.
C35_FirstSampleTriggers ==
    [][op = "__init__"
           => /\ (GtZero(curr_angle') /\ GtZero(curr_velocity'))
                    => /\ state' = VELOCITY_MAX
                       /\ velocity_max' = curr_velocity'
              /\ (LtZero(curr_angle') /\ LtZero(curr_velocity'))
                    => /\ state' = VELOCITY_MIN
                       /\ velocity_min' = curr_velocity']_vars

\* C35 witness: an update on the previous sample (0, 0) has moved INITIAL
\* to VELOCITY_MIN on a sample below zero in angle and velocity; no other
\* slot has been written yet.
C35_Witness ==
    /\ op = "update" /\ pre_state = INITIAL /\ state = VELOCITY_MIN
    /\ prev_angle = 0 /\ prev_velocity = 0
    /\ curr_angle = -AngStep /\ curr_velocity = -VelStep
    /\ velocity_min = -VelStep
    /\ velocity_max = 0 /\ angle_max = 0 /\ angle_min = 0

\* C36: a zero crossing that completes on a gated sample is lost.  The
\* gated update (debounced or timed out) shifts the sample into the
\* previous one and evaluates no trigger: flags and slots stay as they
\* were and the state stays or becomes INITIAL.  The update after it
\* compares with the gated sample and finds no crossing of the direction
\* that the gated sample completed, in angle or in velocity.
C36_GatedCrossingLost ==
    [][op' = "update"
           => /\ gated'
                    => /\ prev_angle' = curr_angle
                       /\ prev_velocity' = curr_velocity
                       /\ UNCHANGED <<extrema_triggers, extrema>>
                       /\ state' \in {state, INITIAL}
              /\ (op = "update" /\ gated)
                    => /\ hit_zero_crossing_from_lower(curr_angle, prev_angle)
                          => ~hit_zero_crossing_from_lower(curr_angle',
                                                           prev_angle')
                       /\ hit_zero_crossing_from_upper(curr_angle, prev_angle)
                          => ~hit_zero_crossing_from_upper(curr_angle',
                                                           prev_angle')
                       /\ hit_zero_crossing_from_lower(curr_velocity,
                                                       prev_velocity)
                          => ~hit_zero_crossing_from_lower(curr_velocity',
                                                           prev_velocity')
                       /\ hit_zero_crossing_from_upper(curr_velocity,
                                                       prev_velocity)
                          => ~hit_zero_crossing_from_upper(curr_velocity',
                                                           prev_velocity')]_vars

\* C36 witness: the update after a debounced sample that completed the
\* crossing of the next state's trigger has run its trigger logic on the
\* pair that starts at that sample, and the state has not advanced.
C36_Witness ==
    /\ op = "update" /\ ~gated /\ tmin > 0
    /\ state = VELOCITY_MAX /\ pre_state = VELOCITY_MAX
    /\ now - timestamp_sec >= tmin
    /\ prev_velocity = -VelStep /\ prev_angle = AngStep
    /\ NoFlag(extrema_triggers)

\* C37: after any update z_t is 0 iff velocity_max = velocity_min, which is
\* the case iff neither velocity slot has been recorded (both are 0); so
\* calculate_gait_phase returns 0 until the first entry into VELOCITY_MAX
\* or VELOCITY_MIN, whatever the angle slots hold, and z_t is not 0 any
\* more once a velocity slot is recorded, after a timeout either.
C37_ZeroRatio ==
    op = "update"
        => /\ (z_t = RatInt(0)) <=> (velocity_max = velocity_min)
           /\ (velocity_max = velocity_min)
                  <=> (velocity_max = 0 /\ velocity_min = 0)
           /\ (velocity_max = 0 /\ velocity_min = 0)
                  => calculate_gait_phase = PhaseZero

\* C38: a signal passing exactly through zero is detected exactly once: of
\* three consecutive values a > 0, 0, b < 0, hit_zero_crossing_from_upper
\* reports the pair (0, b) and not the pair (a, 0); of a < 0, 0, b > 0,
\* hit_zero_crossing_from_lower reports the pair (0, b) and not the pair
\* (a, 0); of a > 0, 0, b > 0, hit_zero_crossing_from_lower reports the
\* pair (0, b).  The zero is 0.0 or -0.0.
C38_ThroughZeroOnce ==
    LET Above(x) == Float(x)[1] > 0
        Below(x) == Float(x)[1] < 0
        Zero(x) == Float(x)[1] = 0 /\ Float(x)[2] # 0
    IN  (op = "hit_zero_crossing_twice" /\ Zero(ret.prev))
            => /\ (Above(ret.before) /\ Below(ret.curr))
                   => (~ret.first_from_upper /\ ret.from_upper)
               /\ (Below(ret.before) /\ Above(ret.curr))
                   => (~ret.first_from_lower /\ ret.from_lower)
               /\ (Above(ret.before) /\ Above(ret.curr))
                   => ret.from_lower

\* C38 witness: the signal went AngStep, 0, -AngStep, and only the second
\* pair was reported by hit_zero_crossing_from_upper.
C38_Witness ==
    /\ op = "hit_zero_crossing_twice"
    /\ ret.before = AngStep /\ ret.prev = 0 /\ ret.curr = -AngStep
    /\ ~ret.first_from_upper /\ ret.from_upper

\* C39: a WalkOnController whose period 1/freq is TMAX or more is in state
\* INITIAL after every step, whatever the samples: step adds the period
\* to dt before update_state tests dt against TMAX, so every step times
\* out and leaves dt at zero.
C39_AlwaysInitial ==
    (/\ op = "step"
     /\ RatLeq(RatInt(MAX_STATE_CHANGE_TIME_THRESHOLD),
               RatDiv(RatInt(1), walk_on.freq)))
        => (walk_on.state = INITIAL /\ walk_on.dt = RatInt(0))

\* C39 witness: the controller of __main__ has been stepped with a sample
\* whose angle and velocity both rose from zero, which a controller that
\* had not timed out would take for an extremum, and is in INITIAL.
C39_Witness ==
    /\ op = "step"
    /\ walk_on.freq = MainFreq
    /\ walk_on.curr_angle = AngStep /\ walk_on.curr_velocity = VelStep
    /\ walk_on.prev_angle = 0 /\ walk_on.prev_velocity = 0
    /\ walk_on.state = INITIAL

====
